---- MODULE Spec2Model ----
(***************************************************************************)
(* Bounded asset history of the placeholder generator.                     *)
(*                                                                         *)
(* App.vue hosts one generator component at a time (v-if tab panels); each *)
(* component instance owns a registry (videoResults / imageResults /       *)
(* results), a busy flag and at most one generate invocation in flight.    *)
(* Asset records are JavaScript objects: the registries, the placeholder   *)
(* closure variable of generateVideo and App.previewAsset all hold         *)
(* references to the same object, so records live in `heap` and everything *)
(* else holds record ids.  Object URLs live in the browser's URL store,    *)
(* `objectURLs`, which counts the revokeObjectURL calls made on each URL.  *)
(***************************************************************************)
EXTENDS Integers, Sequences, FiniteSets, TLC

\* ---- bounds ------------------------------------------------------------
MaxCapacity == 2        \* the maxHistory prop ranges over 1..MaxCapacity
MaxAssets == 3          \* asset records created in one run
MaxMounts == 3          \* component instances mounted in one run
MaxBatch == 2           \* largest batchCount tried
MaxCalls == 5           \* getFFmpeg calls made in one run
MaxToasts == 4          \* toasts pushed in one run

Clock == {1, 2}         \* a wall clock that moves, not always forward
Hashes == {1}           \* digests a hash routine returns (0 stands for no hash)
BlobSizes == {1}        \* blob.size of a produced blob
NoUrl == 0              \* the empty string ''
NoAsset == 0            \* null / undefined
null == 0               \* null in lib/ffmpeg.ts
Tabs == {"image", "video"}

VARIABLES
  toaster,        \* App: toasts, toastTimers and the window's pending timeouts
  ffmpeg,         \* lib/ffmpeg.ts: instance, loadingPromise and the calls made
  clock,          \* the values Date.now() returns in this run
  maxHistory,     \* props.maxHistory, handed down by App
  activeTab,      \* App.activeTab
  previewAsset,   \* App.previewAsset: a record id, or NoAsset for null
  components,     \* the component instances created so far, oldest first
  heap,           \* heap[id]: the GeneratedAsset object with that id
  objectURLs,     \* objectURLs[u]: revokeObjectURL calls made on URL u
  call            \* the handler that ran last, its argument and its effects

vars == <<toaster, ffmpeg, clock, maxHistory, activeTab, previewAsset, components, heap,
          objectURLs, call>>

\* ---- records and helpers -------------------------------------------------
NewComponent(type) ==
  [type |-> type, mounted |-> TRUE, results |-> <<>>, busy |-> FALSE,
   pc |-> "idle", asset |-> NoAsset, i |-> 0, tasks |-> 0]

\* an unmounted instance that awaits nothing is referenced by nothing any more
collect(component) ==
  IF ~component.mounted /\ component.pc = "idle"
  THEN [NewComponent(component.type) EXCEPT !.mounted = FALSE]
  ELSE component

Call(op, c, outcome, arg, revoked, evicted, toast) ==
  [op |-> op, c |-> c, outcome |-> outcome, arg |-> arg, revoked |-> revoked,
   evicted |-> evicted, toast |-> toast]

Range(s) == {s[k] : k \in DOMAIN s}

\* emit(...) of an unmounted component reaches no listener
emit(c, message) == IF components[c].mounted THEN message ELSE ""

\* URL.createObjectURL: a fresh URL, not revoked yet
createObjectURL(urls) == Append(urls, 0)

\* URL.revokeObjectURL on every URL of `args` (revoking '' touches no URL)
revokeObjectURL(urls, args) ==
  [u \in DOMAIN urls |-> IF u \in Range(args) THEN urls[u] + 1 ELSE urls[u]]

\* the URL arguments cleanupAsset passes to URL.revokeObjectURL
cleanupAssetAlways(h, asset) == IF asset = NoAsset THEN <<>> ELSE <<h[asset].url>>

cleanupAsset(h, asset) ==
  IF asset # NoAsset /\ h[asset].url # NoUrl THEN <<h[asset].url>> ELSE <<>>

\* pushResult: prepend, then pop the last element on overflow
pushResultNoEvict(h, results, asset) ==
  [results |-> <<asset>> \o results, removed |-> NoAsset]

pushResultByCreatedAt(h, results, asset) ==
  LET pushed == <<asset>> \o results
      k == CHOOSE j \in DOMAIN pushed :
             \A m \in DOMAIN pushed :
               \/ h[pushed[j]].createdAt < h[pushed[m]].createdAt
               \/ (h[pushed[j]].createdAt = h[pushed[m]].createdAt /\ j >= m)
  IN IF Len(pushed) > maxHistory
     THEN [results |-> SubSeq(pushed, 1, k - 1) \o SubSeq(pushed, k + 1, Len(pushed)),
           removed |-> pushed[k]]
     ELSE [results |-> pushed, removed |-> NoAsset]

pushResultShift(h, results, asset) ==
  LET pushed == <<asset>> \o results
  IN IF Len(pushed) > maxHistory
     THEN [results |-> SubSeq(pushed, 2, Len(pushed)), removed |-> pushed[1]]
     ELSE [results |-> pushed, removed |-> NoAsset]

pushResult(h, results, asset) ==
  LET pushed == <<asset>> \o results
  IN IF Len(pushed) > maxHistory
     THEN [results |-> SubSeq(pushed, 1, Len(pushed) - 1), removed |-> pushed[Len(pushed)]]
     ELSE [results |-> pushed, removed |-> NoAsset]

\* Array.prototype.find by id
findAny(results, assetId) == assetId

find(results, assetId) ==
  LET hits == {k \in DOMAIN results : heap[results[k]].id = assetId}
  IN IF hits = {} THEN NoAsset
     ELSE results[CHOOSE k \in hits : \A j \in hits : k <= j]

\* removeAsset of VideoGenerator
removeAssetVideoNoGuard(h, results, assetId) ==
  LET asset == find(results, assetId)
  IN IF asset = NoAsset
     THEN [results |-> results, revoked |-> <<>>, toast |-> ""]
     ELSE [results |-> SelectSeq(results, LAMBDA item : h[item].id # assetId),
           revoked |-> cleanupAsset(h, asset), toast |-> "deleted"]

removeAssetVideoNoCleanup(h, results, assetId) ==
  LET asset == find(results, assetId)
  IN IF asset = NoAsset \/ h[asset].status = "pending"
     THEN [results |-> results, revoked |-> <<>>, toast |-> ""]
     ELSE [results |-> SelectSeq(results, LAMBDA item : h[item].id # assetId),
           revoked |-> <<>>, toast |-> "deleted"]

removeAssetVideo(h, results, assetId) ==
  LET asset == find(results, assetId)
  IN IF asset = NoAsset \/ h[asset].status = "pending"
     THEN [results |-> results, revoked |-> <<>>, toast |-> ""]
     ELSE [results |-> SelectSeq(results, LAMBDA item : h[item].id # assetId),
           revoked |-> cleanupAsset(h, asset), toast |-> "deleted"]

\* removeAsset of ImageGenerator and of DerivativeGenerator
removeAssetPlain(h, results, assetId) ==
  LET asset == find(results, assetId)
  IN IF asset = NoAsset
     THEN [results |-> results, revoked |-> <<>>, toast |-> ""]
     ELSE [results |-> SelectSeq(results, LAMBDA item : h[item].id # assetId),
           revoked |-> cleanupAsset(h, asset), toast |-> "deleted"]

\* App's toast state as setup() leaves it: toasts is the list shown (their
\* ids, oldest first), toastTimers the Map as a set of <<id, timer>>
\* entries, timeouts the timeouts pending in the window, each with the id its
\* callback closes over; ids and timers count the generateId and setTimeout
\* calls made for toasts
NoToasts ==
  [mounted |-> TRUE, toasts |-> <<>>, toastTimers |-> {}, timeouts |-> {},
   ids |-> 0, timers |-> 0]

\* window.clearTimeout(timer): a handle that is not pending is ignored
clearTimeout(timeouts, timer) == {w \in timeouts : w.timer # timer}

\* removeToast(id) that leaves the timeout running
removeToastKeepTimeout(t, id) ==
  [t EXCEPT !.toasts = SelectSeq(@, LAMBDA toast : toast # id),
            !.toastTimers = {e \in @ : e[1] # id}]

\* removeToast(id): filter the list, clear the timeout the Map holds for id,
\* delete the entry
removeToast(t, id) ==
  LET held == {e \in t.toastTimers : e[1] = id}
  IN [t EXCEPT !.toasts = SelectSeq(@, LAMBDA toast : toast # id),
               !.timeouts = {w \in @ : \A e \in held : w.timer # e[2]},
               !.toastTimers = @ \ held]

\* a generateId whose second draw repeats the first
generateIdRepeat == IF Len(heap) > 1 THEN Len(heap) ELSE 1

\* generateId: crypto.randomUUID(), or a Math.random string where that is
\* missing.  A value that has not been handed out before: the next one in
\* the order of creation (two random draws coming out equal is not modelled)
generateId == Len(heap) + toaster.ids + 1

\* the placeholder object literal of generateVideo
placeholderRecord(now) ==
  [id |-> generateId, kind |-> "video", url |-> NoUrl, size |-> 0, createdAt |-> now,
   status |-> "pending", hash |-> 0]

\* the asset object literal of generateImage and deriveMaterial
readyRecord(kind, url, size, hash, now) ==
  [id |-> generateId, kind |-> kind, url |-> url, size |-> size, createdAt |-> now,
   status |-> "ready", hash |-> hash]

\* the component the presentation layer shows: App's panels hold the newest
\* image/video instance; the DerivativeGenerator instance is hosted on its own
Mounted == {c \in DOMAIN components : components[c].mounted}

InRegistry(id) == \E c \in Mounted : id \in Range(components[c].results)

\* ---- lib/ffmpeg.ts ----------------------------------------------------------
\* The module scope: instance and loadingPromise.  promises[p] is the state of
\* the promise chain the p-th createInstance() call started, and p also names
\* the FFmpeg object it yields; calls[k] is what the k-th getFFmpeg() call
\* returned: the instance itself, or the promise it awaits.
ModuleScope ==
  [instance |-> null, loadingPromise |-> null, promises |-> <<>>, calls |-> <<>>]

\* getFFmpeg (lines 18-32)
getFFmpegNoLatch(m) ==
  IF m.instance # null
  THEN [m EXCEPT !.calls = Append(@, [promise |-> null, instance |-> m.instance])]
  ELSE LET started == [m EXCEPT !.promises = Append(@, "pending"),
                                !.loadingPromise = Len(m.promises) + 1]
       IN [started EXCEPT !.calls = Append(@, [promise |-> started.loadingPromise,
                                              instance |-> null])]

getFFmpeg(m) ==
  IF m.instance # null
  THEN [m EXCEPT !.calls = Append(@, [promise |-> null, instance |-> m.instance])]
  ELSE LET started == IF m.loadingPromise = null
                      THEN [m EXCEPT !.promises = Append(@, "pending"),
                                     !.loadingPromise = Len(m.promises) + 1]
                      ELSE m
       IN [started EXCEPT !.calls = Append(@, [promise |-> started.loadingPromise,
                                              instance |-> null])]

\* the .then callback (lines 22-25)
then(m, p) == [m EXCEPT !.instance = p, !.promises[p] = "fulfilled"]

\* the .catch callback (lines 26-29)
catchKeepPromise(m, p) == [m EXCEPT !.promises[p] = "rejected"]

catch(m, p) == [m EXCEPT !.loadingPromise = null, !.promises[p] = "rejected"]

\* the FFmpeg object the k-th caller has received, null while it has none
received(m, k) ==
  IF m.calls[k].promise = null THEN m.calls[k].instance
  ELSE IF m.promises[m.calls[k].promise] = "fulfilled" THEN m.calls[k].promise
  ELSE null

\* ---- initial states -----------------------------------------------------
Start(tab, component, dates) ==
  /\ toaster = NoToasts
  /\ ffmpeg = ModuleScope
  /\ clock = dates
  /\ maxHistory \in 1..MaxCapacity
  /\ activeTab = tab
  /\ previewAsset = NoAsset
  /\ components = <<component>>
  /\ heap = <<>>
  /\ objectURLs = <<>>
  /\ call = Call("init", 0, "", 0, <<>>, NoAsset, "")

\* App as it starts: the image tab, a fresh ImageGenerator
InitApp == Start("image", NewComponent("image"), {1})

\* One generator, freshly mounted: the ImageGenerator App starts with, the
\* VideoGenerator it shows after a click on the video tab, or a
\* DerivativeGenerator (App mounts none: it is explored on a host of its own)
Mount(dates) ==
  \/ Start("image", NewComponent("image"), dates)
  \/ Start("video", NewComponent("video"), dates)
  \/ Start("image", NewComponent("derivative"), dates)

\* no handler reads createdAt, so the clock stands still ...
Init == Mount({1})

\* ... except where the claim is about createdAt
InitDates == Mount(Clock)

\* ---- VideoGenerator -------------------------------------------------------
\* lines 178-183: the placeholder is populated in place
populateNoUrl(asset, url, size, hash) ==
  [asset EXCEPT !.size = size, !.status = "ready", !.hash = hash]

populate(asset, url, size, hash) ==
  [asset EXCEPT !.url = url, !.size = size, !.status = "ready", !.hash = hash]

\* lines 186-190: deleteFile settles; its rejection is caught by the inner try
deleteFileUncaught(asset, ok) ==
  IF ok THEN asset ELSE [asset EXCEPT !.status = "error"]

deleteFileSettled(asset, ok) == asset

\* the finally block, and the end of the invocation (its locals are gone)
finallyKeepBusy(component) ==
  collect([component EXCEPT !.pc = "idle", !.asset = NoAsset, !.i = 0, !.tasks = 0])

finally(component) ==
  collect([component EXCEPT !.busy = FALSE, !.pc = "idle", !.asset = NoAsset,
                            !.i = 0, !.tasks = 0])

\* generateVideo up to its first await (lines 101-133)
generateVideoNoGuard(c) ==
  /\ c \in Mounted
  /\ components[c].type = "video"
  /\ \E valid \in BOOLEAN, now \in clock :
       IF ~valid
       THEN /\ call' = Call("generateVideo", c, "invalid", 0, <<>>, NoAsset, emit(c, "error"))
            /\ UNCHANGED <<components, heap, objectURLs>>
       ELSE /\ Len(heap) < MaxAssets
            /\ LET id == Len(heap) + 1
                   h == Append(heap, placeholderRecord(now))
                   r == pushResult(h, components[c].results, id)
                   revoked == cleanupAsset(h, r.removed)
               IN /\ heap' = h
                  /\ components' = [components EXCEPT ![c] =
                       [@ EXCEPT !.busy = TRUE, !.pc = "getFFmpeg", !.asset = id,
                                 !.results = r.results]]
                  /\ objectURLs' = revokeObjectURL(objectURLs, revoked)
                  /\ call' = Call("generateVideo", c, "accepted", id, revoked, r.removed, "")
  /\ UNCHANGED <<toaster, ffmpeg, clock, maxHistory, activeTab, previewAsset>>

generateVideo(c) ==
  /\ c \in Mounted
  /\ components[c].type = "video"
  /\ \E valid \in BOOLEAN, now \in clock :
       IF ~valid
       THEN /\ call' = Call("generateVideo", c, "invalid", 0, <<>>, NoAsset, emit(c, "error"))
            /\ UNCHANGED <<components, heap, objectURLs>>
       ELSE IF components[c].busy
       THEN /\ call' = Call("generateVideo", c, "busy", 0, <<>>, NoAsset, "")
            /\ UNCHANGED <<components, heap, objectURLs>>
       ELSE /\ Len(heap) < MaxAssets
            /\ LET id == Len(heap) + 1
                   h == Append(heap, placeholderRecord(now))
                   r == pushResult(h, components[c].results, id)
                   revoked == cleanupAsset(h, r.removed)
               IN /\ heap' = h
                  /\ components' = [components EXCEPT ![c] =
                       [@ EXCEPT !.busy = TRUE, !.pc = "getFFmpeg", !.asset = id,
                                 !.results = r.results]]
                  /\ objectURLs' = revokeObjectURL(objectURLs, revoked)
                  /\ call' = Call("generateVideo", c, "accepted", id, revoked, r.removed, "")
  /\ UNCHANGED <<toaster, ffmpeg, clock, maxHistory, activeTab, previewAsset>>

\* the closure variable `placeholder` of the invocation running in component c
\* (line 113): every invocation has its own
placeholderShared(c) ==
  CHOOSE id \in DOMAIN heap :
    /\ heap[id].kind = "video"
    /\ \A other \in DOMAIN heap : heap[other].kind = "video" => other <= id

placeholder(c) == components[c].asset

VideoAwaits == <<"getFFmpeg", "exec", "readFile", "computeFFmpegMD5">>

\* getFFmpeg, exec or readFile resolves (lines 133-176)
generateVideoResume(c) ==
  /\ c \in DOMAIN components
  /\ \E k \in 1..3 :
       /\ components[c].pc = VideoAwaits[k]
       /\ components' = [components EXCEPT ![c].pc = VideoAwaits[k + 1]]
       /\ call' = Call("generateVideoResume", c, VideoAwaits[k], components[c].asset,
                       <<>>, NoAsset, "")
  /\ UNCHANGED <<toaster, ffmpeg, clock, maxHistory, activeTab, previewAsset, heap, objectURLs>>

\* computeFFmpegMD5 resolves; the placeholder becomes ready (lines 177-187)
generateVideoPopulate(c) ==
  /\ c \in DOMAIN components
  /\ components[c].pc = "computeFFmpegMD5"
  /\ \E hash \in Hashes, size \in BlobSizes :
       LET id == placeholder(c)
           urls == createObjectURL(objectURLs)
       IN /\ objectURLs' = urls
          /\ heap' = [heap EXCEPT ![id] = populate(@, Len(urls), size, hash)]
          /\ call' = Call("generateVideoPopulate", c, "ready", id, <<>>, NoAsset,
                          emit(c, "generated"))
  /\ components' = [components EXCEPT ![c].pc = "deleteFile"]
  /\ UNCHANGED <<toaster, ffmpeg, clock, maxHistory, activeTab, previewAsset>>

\* an awaited step before the status write rejects: catch and finally (lines 191-203)
generateVideoCatchKeepPending(c) ==
  /\ c \in DOMAIN components
  /\ components[c].pc \in Range(VideoAwaits)
  /\ components' = [components EXCEPT ![c] = finally(@)]
  /\ call' = Call("generateVideoCatch", c, components[c].pc, placeholder(c),
                  <<>>, NoAsset, emit(c, "error"))
  /\ UNCHANGED <<toaster, ffmpeg, clock, maxHistory, activeTab, previewAsset, heap, objectURLs>>

generateVideoCatch(c) ==
  /\ c \in DOMAIN components
  /\ components[c].pc \in Range(VideoAwaits)
  /\ heap' = [heap EXCEPT ![placeholder(c)].status = "error"]
  /\ components' = [components EXCEPT ![c] = finally(@)]
  /\ call' = Call("generateVideoCatch", c, components[c].pc, placeholder(c),
                  <<>>, NoAsset, emit(c, "error"))
  /\ UNCHANGED <<toaster, ffmpeg, clock, maxHistory, activeTab, previewAsset, objectURLs>>

\* deleteFile settles either way, then finally (lines 186-190, 198-203)
generateVideoFinally(c) ==
  /\ c \in DOMAIN components
  /\ components[c].pc = "deleteFile"
  /\ \E ok \in BOOLEAN :
       /\ heap' = [heap EXCEPT ![placeholder(c)] = deleteFileSettled(@, ok)]
       /\ call' = Call("generateVideoFinally", c, IF ok THEN "resolved" ELSE "rejected",
                       placeholder(c), <<>>, NoAsset, "")
  /\ components' = [components EXCEPT ![c] = finally(@)]
  /\ UNCHANGED <<toaster, ffmpeg, clock, maxHistory, activeTab, previewAsset, objectURLs>>

\* removeAsset of the mounted generator, by kind of component
removeAssetOf(type, h, results, assetId) ==
  IF type = "video" THEN removeAssetVideo(h, results, assetId)
  ELSE removeAssetPlain(h, results, assetId)

removeAsset(c, assetId) ==
  /\ c \in Mounted
  /\ assetId \in DOMAIN heap
  /\ LET r == removeAssetOf(components[c].type, heap, components[c].results, assetId)
     IN /\ components' = [components EXCEPT ![c].results = r.results]
        /\ objectURLs' = revokeObjectURL(objectURLs, r.revoked)
        /\ call' = Call("removeAsset", c, IF r.toast = "" THEN "ignored" ELSE "removed",
                        assetId, r.revoked, NoAsset, emit(c, r.toast))
  /\ UNCHANGED <<toaster, ffmpeg, clock, maxHistory, activeTab, previewAsset, heap>>

\* ---- ImageGenerator -------------------------------------------------------
\* generateImage up to its first await (lines 505-525)
generateImage(c) ==
  /\ c \in Mounted
  /\ components[c].type = "image"
  /\ IF components[c].busy
     THEN /\ call' = Call("generateImage", c, "busy", 0, <<>>, NoAsset, "")
          /\ UNCHANGED components
     ELSE \E tasks \in 1..MaxBatch :
            /\ components' = [components EXCEPT ![c] =
                 [@ EXCEPT !.busy = TRUE, !.pc = "canvasToBlob", !.i = 0, !.tasks = tasks]]
            /\ call' = Call("generateImage", c, "accepted", 0, <<>>, NoAsset, "")
  /\ UNCHANGED <<toaster, ffmpeg, clock, maxHistory, activeTab, previewAsset, heap, objectURLs>>

\* canvasToBlob resolves (line 525)
generateImageBlob(c) ==
  /\ c \in DOMAIN components
  /\ components[c].pc = "canvasToBlob"
  /\ components' = [components EXCEPT ![c].pc = "computeHash"]
  /\ call' = Call("generateImageBlob", c, "canvasToBlob", 0, <<>>, NoAsset, "")
  /\ UNCHANGED <<toaster, ffmpeg, clock, maxHistory, activeTab, previewAsset, heap, objectURLs>>

\* computeHash resolves: the asset is built and pushed, the loop goes on or ends
\* (lines 526-543, 548-550)
generateImagePushOffByOne(c) ==
  /\ c \in DOMAIN components
  /\ components[c].pc = "computeHash"
  /\ Len(heap) < MaxAssets
  /\ \E hash \in Hashes, size \in BlobSizes, now \in clock :
       LET id == Len(heap) + 1
           urls == createObjectURL(objectURLs)
           h == Append(heap, readyRecord("image", Len(urls), size, hash, now))
           r == pushResult(h, components[c].results, id)
           revoked == cleanupAsset(h, r.removed)
           last == components[c].i + 1 > components[c].tasks
           pushed == [components[c] EXCEPT !.results = r.results, !.i = @ + 1,
                                           !.pc = "canvasToBlob"]
       IN /\ heap' = h
          /\ objectURLs' = revokeObjectURL(urls, revoked)
          /\ components' = [components EXCEPT ![c] =
                              IF last THEN finally(pushed) ELSE pushed]
          /\ call' = Call("generateImagePush", c, IF last THEN "done" ELSE "next", id,
                          revoked, r.removed, IF last THEN emit(c, "generated") ELSE "")
  /\ UNCHANGED <<toaster, ffmpeg, clock, maxHistory, activeTab, previewAsset>>

generateImagePush(c) ==
  /\ c \in DOMAIN components
  /\ components[c].pc = "computeHash"
  /\ Len(heap) < MaxAssets
  /\ \E hash \in Hashes, size \in BlobSizes, now \in clock :
       LET id == Len(heap) + 1
           urls == createObjectURL(objectURLs)
           h == Append(heap, readyRecord("image", Len(urls), size, hash, now))
           r == pushResult(h, components[c].results, id)
           revoked == cleanupAsset(h, r.removed)
           last == components[c].i + 1 >= components[c].tasks
           pushed == [components[c] EXCEPT !.results = r.results, !.i = @ + 1,
                                           !.pc = "canvasToBlob"]
       IN /\ heap' = h
          /\ objectURLs' = revokeObjectURL(urls, revoked)
          /\ components' = [components EXCEPT ![c] =
                              IF last THEN finally(pushed) ELSE pushed]
          /\ call' = Call("generateImagePush", c, IF last THEN "done" ELSE "next", id,
                          revoked, r.removed, IF last THEN emit(c, "generated") ELSE "")
  /\ UNCHANGED <<toaster, ffmpeg, clock, maxHistory, activeTab, previewAsset>>

\* drawing throws, or canvasToBlob or computeHash rejects: catch and finally
\* (lines 544-550)
generateImageCatch(c) ==
  /\ c \in DOMAIN components
  /\ components[c].pc \in {"canvasToBlob", "computeHash"}
  /\ components' = [components EXCEPT ![c] = finally(@)]
  /\ call' = Call("generateImageCatch", c, components[c].pc, 0, <<>>, NoAsset,
                  emit(c, "error"))
  /\ UNCHANGED <<toaster, ffmpeg, clock, maxHistory, activeTab, previewAsset, heap, objectURLs>>

\* ---- DerivativeGenerator --------------------------------------------------
FileTypes == {"none", "other", "image", "video"}

\* deriveMaterial up to its await (lines 165-181)
deriveMaterial(c) ==
  /\ c \in Mounted
  /\ components[c].type = "derivative"
  /\ \E file \in FileTypes :
       IF file \in {"none", "other"}
       THEN /\ call' = Call("deriveMaterial", c, file, 0, <<>>, NoAsset, emit(c, "error"))
            /\ UNCHANGED components
       ELSE IF components[c].busy
       THEN /\ call' = Call("deriveMaterial", c, "busy", 0, <<>>, NoAsset, "")
            /\ UNCHANGED components
       ELSE /\ components' = [components EXCEPT ![c] =
                 [@ EXCEPT !.busy = TRUE, !.pc = file]]
            /\ call' = Call("deriveMaterial", c, "accepted", 0, <<>>, NoAsset, "")
  /\ UNCHANGED <<toaster, ffmpeg, clock, maxHistory, activeTab, previewAsset, heap, objectURLs>>

\* deriveFromImage / deriveFromVideo resolves: the asset is built and pushed
\* (lines 181-198, 203-205)
deriveMaterialPush(c) ==
  /\ c \in DOMAIN components
  /\ components[c].type = "derivative"
  /\ components[c].pc \in {"image", "video"}
  /\ Len(heap) < MaxAssets
  /\ \E hash \in Hashes, size \in BlobSizes, now \in clock :
       LET id == Len(heap) + 1
           urls == createObjectURL(objectURLs)
           h == Append(heap, readyRecord(components[c].pc, Len(urls), size, hash, now))
           r == pushResult(h, components[c].results, id)
           revoked == cleanupAsset(h, r.removed)
       IN /\ heap' = h
          /\ objectURLs' = revokeObjectURL(urls, revoked)
          /\ components' = [components EXCEPT ![c] =
                              finally([@ EXCEPT !.results = r.results])]
          /\ call' = Call("deriveMaterialPush", c, "done", id, revoked, r.removed,
                          emit(c, "generated"))
  /\ UNCHANGED <<toaster, ffmpeg, clock, maxHistory, activeTab, previewAsset>>

\* deriveFromImage / deriveFromVideo rejects: catch and finally (lines 199-205)
deriveMaterialCatch(c) ==
  /\ c \in DOMAIN components
  /\ components[c].type = "derivative"
  /\ components[c].pc \in {"image", "video"}
  /\ components' = [components EXCEPT ![c] = finally(@)]
  /\ call' = Call("deriveMaterialCatch", c, components[c].pc, 0, <<>>, NoAsset,
                  emit(c, "error"))
  /\ UNCHANGED <<toaster, ffmpeg, clock, maxHistory, activeTab, previewAsset, heap, objectURLs>>

\* ---- App ------------------------------------------------------------------
\* a generator emits 'preview' for a record it lists; VideoGenerator only for
\* a ready one (canPreview)
openPreview(c, asset) ==
  /\ c \in Mounted
  /\ components[c].type \in Tabs
  /\ asset \in Range(components[c].results)
  /\ components[c].type = "video" => heap[asset].status = "ready"
  /\ previewAsset' = asset
  /\ call' = Call("openPreview", c, "", asset, <<>>, NoAsset, "")
  /\ UNCHANGED <<toaster, ffmpeg, clock, maxHistory, activeTab, components, heap, objectURLs>>

closePreview ==
  /\ previewAsset # NoAsset
  /\ previewAsset' = NoAsset
  /\ call' = Call("closePreview", 0, "", 0, <<>>, NoAsset, "")
  /\ UNCHANGED <<toaster, ffmpeg, clock, maxHistory, activeTab, components, heap, objectURLs>>

\* a tab button: the v-if panels unmount the generator shown and mount a fresh
\* instance of the other one; whatever the old instance awaits goes on
setActiveTab(tab) ==
  /\ tab \in Tabs
  /\ tab # activeTab
  /\ Len(components) < MaxMounts
  /\ activeTab' = tab
  /\ components' = Append([components EXCEPT ![Len(components)] =
                              collect([@ EXCEPT !.mounted = FALSE])],
                          NewComponent(tab))
  /\ call' = Call("setActiveTab", 0, tab, 0, <<>>, NoAsset, "")
  /\ UNCHANGED <<toaster, ffmpeg, clock, maxHistory, previewAsset, heap, objectURLs>>

\* the handlers of the generator components
Generators ==
  \/ \E c \in DOMAIN components : generateVideo(c)
  \/ \E c \in DOMAIN components : generateVideoResume(c)
  \/ \E c \in DOMAIN components : generateVideoPopulate(c)
  \/ \E c \in DOMAIN components : generateVideoCatch(c)
  \/ \E c \in DOMAIN components : generateVideoFinally(c)
  \/ \E c \in DOMAIN components : generateImage(c)
  \/ \E c \in DOMAIN components : generateImageBlob(c)
  \/ \E c \in DOMAIN components : generateImagePush(c)
  \/ \E c \in DOMAIN components : generateImageCatch(c)
  \/ \E c \in DOMAIN components, assetId \in DOMAIN heap : removeAsset(c, assetId)

\* one mounted generator and App's preview dialog
Next ==
  \/ Generators
  \/ \E c \in DOMAIN components : deriveMaterial(c)
  \/ \E c \in DOMAIN components : deriveMaterialPush(c)
  \/ \E c \in DOMAIN components : deriveMaterialCatch(c)
  \/ \E c \in DOMAIN components, asset \in DOMAIN heap : openPreview(c, asset)
  \/ closePreview

Spec == Init /\ [][Next]_vars

\* App with its tab buttons: generators are unmounted and mounted while their
\* invocations are in flight
NextApp ==
  \/ Generators
  \/ \E c \in DOMAIN components, asset \in DOMAIN heap : openPreview(c, asset)
  \/ closePreview
  \/ \E tab \in Tabs : setActiveTab(tab)

SpecApp == InitApp /\ [][NextApp]_vars


\* NextDates: Next without the preview dialog, which plays no part in eviction
NextDates ==
  \/ Generators
  \/ \E c \in DOMAIN components : deriveMaterial(c)
  \/ \E c \in DOMAIN components : deriveMaterialPush(c)
  \/ \E c \in DOMAIN components : deriveMaterialCatch(c)

SpecDates == InitDates /\ [][NextDates]_vars

\* the promise generateVideo awaits in component c settles, one way or the other
settle(c) ==
  \/ generateVideoResume(c)
  \/ generateVideoPopulate(c)
  \/ generateVideoCatch(c)
  \/ generateVideoFinally(c)

\* every producer step terminates: an awaited promise does not stay pending
SpecLive ==
  /\ Init
  /\ [][NextDates]_vars
  /\ \A c \in 1..MaxMounts : WF_vars(settle(c))

\* the VideoGenerator App shows after a click on the video tab, its handlers
\* and the tab buttons: invocations of an unmounted VideoGenerator and of its
\* successor run side by side (the ImageGenerator passed through in between
\* stays as it was mounted)
InitTabs == Start("video", NewComponent("video"), {1})

NextTabs ==
  \/ \E c \in DOMAIN components : generateVideo(c)
  \/ \E c \in DOMAIN components : generateVideoResume(c)
  \/ \E c \in DOMAIN components : generateVideoPopulate(c)
  \/ \E c \in DOMAIN components : generateVideoCatch(c)
  \/ \E c \in DOMAIN components : generateVideoFinally(c)
  \/ \E c \in DOMAIN components, assetId \in DOMAIN heap : removeAsset(c, assetId)
  \/ \E tab \in Tabs : setActiveTab(tab)

SpecTabs == InitTabs /\ [][NextTabs]_vars

\* ---- URL.revokeObjectURL failing ----------------------------------------
\* The handlers again, for the case that the URL.revokeObjectURL call made by
\* cleanupAsset throws.  No handler wraps that call in a try of its own.

\* removeAsset: cleanupAsset(asset) throws at line 219 (image: 556, derivative:
\* 54); the filter and the toast after it are not reached
removeAssetThrows(c, assetId) ==
  /\ c \in Mounted
  /\ LET r == removeAssetOf(components[c].type, heap, components[c].results, assetId)
     IN /\ r.revoked # <<>>
        /\ call' = Call("removeAsset", c, "threw", assetId, <<>>, NoAsset, "")
  /\ UNCHANGED <<toaster, ffmpeg, clock, maxHistory, activeTab, previewAsset, components, heap,
                 objectURLs>>

\* generateVideo: pushResult(placeholder) at line 126 stands before the try of
\* line 132: the array is assigned and popped, cleanupAsset throws, the
\* invocation ends rejected and isVideoGenerating stays set
generateVideoThrows(c) ==
  /\ c \in Mounted
  /\ components[c].type = "video"
  /\ ~components[c].busy
  /\ Len(heap) < MaxAssets
  /\ \E now \in clock :
       LET id == Len(heap) + 1
           h == Append(heap, placeholderRecord(now))
           r == pushResult(h, components[c].results, id)
       IN /\ cleanupAsset(h, r.removed) # <<>>
          /\ heap' = h
          /\ components' = [components EXCEPT ![c] =
               [@ EXCEPT !.busy = TRUE, !.results = r.results]]
          /\ call' = Call("generateVideo", c, "threw", id, <<>>, r.removed, "")
  /\ UNCHANGED <<toaster, ffmpeg, clock, maxHistory, activeTab, previewAsset, objectURLs>>

\* generateImage: pushResult(asset) at line 540 is inside the try: the array is
\* assigned and popped, cleanupAsset throws, the catch of line 544 reports it
\* and the batch ends there
generateImagePushThrows(c) ==
  /\ c \in DOMAIN components
  /\ components[c].pc = "computeHash"
  /\ Len(heap) < MaxAssets
  /\ \E hash \in Hashes, size \in BlobSizes, now \in clock :
       LET id == Len(heap) + 1
           urls == createObjectURL(objectURLs)
           h == Append(heap, readyRecord("image", Len(urls), size, hash, now))
           r == pushResult(h, components[c].results, id)
       IN /\ cleanupAsset(h, r.removed) # <<>>
          /\ heap' = h
          /\ objectURLs' = urls
          /\ components' = [components EXCEPT ![c] =
                              finally([@ EXCEPT !.results = r.results])]
          /\ call' = Call("generateImagePush", c, "caught", id, <<>>, r.removed,
                          emit(c, "error"))
  /\ UNCHANGED <<toaster, ffmpeg, clock, maxHistory, activeTab, previewAsset>>

\* deriveMaterial: pushResult(asset) at line 196 is inside the try, as above
deriveMaterialPushThrows(c) ==
  /\ c \in DOMAIN components
  /\ components[c].type = "derivative"
  /\ components[c].pc \in {"image", "video"}
  /\ Len(heap) < MaxAssets
  /\ \E hash \in Hashes, size \in BlobSizes, now \in clock :
       LET id == Len(heap) + 1
           urls == createObjectURL(objectURLs)
           h == Append(heap, readyRecord(components[c].pc, Len(urls), size, hash, now))
           r == pushResult(h, components[c].results, id)
       IN /\ cleanupAsset(h, r.removed) # <<>>
          /\ heap' = h
          /\ objectURLs' = urls
          /\ components' = [components EXCEPT ![c] =
                              finally([@ EXCEPT !.results = r.results])]
          /\ call' = Call("deriveMaterialPush", c, "caught", id, <<>>, r.removed,
                          emit(c, "error"))
  /\ UNCHANGED <<toaster, ffmpeg, clock, maxHistory, activeTab, previewAsset>>

NextRelease ==
  \/ NextDates
  \/ \E c \in DOMAIN components, assetId \in DOMAIN heap : removeAssetThrows(c, assetId)
  \/ \E c \in DOMAIN components : generateVideoThrows(c)
  \/ \E c \in DOMAIN components : generateImagePushThrows(c)
  \/ \E c \in DOMAIN components : deriveMaterialPushThrows(c)

SpecRelease == Init /\ [][NextRelease]_vars

\* ---- the registry operations on their own --------------------------------
\* pushResult(placeholder) as generateVideo calls it (lines 113-126), applied
\* whatever the busy flag says: the registry's insert of a pending record
insert(c) ==
  /\ c \in Mounted
  /\ components[c].type = "video"
  /\ Len(heap) < MaxAssets
  /\ \E now \in clock :
       LET id == Len(heap) + 1
           h == Append(heap, placeholderRecord(now))
           r == pushResult(h, components[c].results, id)
           revoked == cleanupAsset(h, r.removed)
       IN /\ heap' = h
          /\ components' = [components EXCEPT ![c].results = r.results]
          /\ objectURLs' = revokeObjectURL(objectURLs, revoked)
          /\ call' = Call("insert", c, "pending", id, revoked, r.removed, "")
  /\ UNCHANGED <<toaster, ffmpeg, clock, maxHistory, activeTab, previewAsset>>

\* the producer of a pending record settles: the writes of lines 178-183, or
\* the write of line 194, through the record reference
update(c, id) ==
  /\ c \in Mounted
  /\ id \in DOMAIN heap
  /\ heap[id].status = "pending"
  /\ \/ \E hash \in Hashes, size \in BlobSizes :
          LET urls == createObjectURL(objectURLs)
          IN /\ objectURLs' = urls
             /\ heap' = [heap EXCEPT ![id] = populate(@, Len(urls), size, hash)]
             /\ call' = Call("update", c, "ready", id, <<>>, NoAsset, "")
     \/ /\ heap' = [heap EXCEPT ![id].status = "error"]
        /\ call' = Call("update", c, "error", id, <<>>, NoAsset, "")
        /\ UNCHANGED objectURLs
  /\ UNCHANGED <<toaster, ffmpeg, clock, maxHistory, activeTab, previewAsset, components>>

InitRegistry == Start("video", NewComponent("video"), {1})

NextRegistry ==
  \/ \E c \in DOMAIN components : insert(c)
  \/ \E c \in DOMAIN components, id \in DOMAIN heap : update(c, id)
  \/ \E c \in DOMAIN components, assetId \in DOMAIN heap : removeAsset(c, assetId)

SpecRegistry == InitRegistry /\ [][NextRegistry]_vars

\* ---- lib/ffmpeg.ts: callers ---------------------------------------------------
\* a caller (generateVideo, computeFFmpegMD5) calls getFFmpeg()
callGetFFmpeg ==
  /\ Len(ffmpeg.calls) < MaxCalls
  /\ ffmpeg' = getFFmpeg(ffmpeg)
  /\ UNCHANGED <<toaster, clock, maxHistory, activeTab, previewAsset, components, heap,
                 objectURLs, call>>

\* createInstance() resolves: ffmpeg.load has finished
createInstanceResolves ==
  /\ \E p \in DOMAIN ffmpeg.promises :
       /\ ffmpeg.promises[p] = "pending"
       /\ ffmpeg' = then(ffmpeg, p)
  /\ UNCHANGED <<toaster, clock, maxHistory, activeTab, previewAsset, components, heap,
                 objectURLs, call>>

\* createInstance() rejects: toBlobURL or ffmpeg.load has failed
createInstanceRejects ==
  /\ \E p \in DOMAIN ffmpeg.promises :
       /\ ffmpeg.promises[p] = "pending"
       /\ ffmpeg' = catch(ffmpeg, p)
  /\ UNCHANGED <<toaster, clock, maxHistory, activeTab, previewAsset, components, heap,
                 objectURLs, call>>

InitFFmpeg == Start("video", NewComponent("video"), {1})

NextFFmpeg ==
  \/ callGetFFmpeg
  \/ createInstanceResolves
  \/ createInstanceRejects

SpecFFmpeg == InitFFmpeg /\ [][NextFFmpeg]_vars

\* ---- App's toasts ----------------------------------------------------------
\* pushToast(payload), the handler of a generator's toast event: a new
\* entry at the end of the list, a timeout of 4000 ms whose callback removes
\* it, and the timeout's handle kept under the toast's id
pushToast ==
  /\ toaster.mounted
  /\ toaster.ids < MaxToasts
  /\ LET id == generateId
         timer == toaster.timers + 1
     IN /\ toaster' = [toaster EXCEPT
                         !.toasts = Append(@, id),
                         !.timeouts = @ \cup {[timer |-> timer, id |-> id]},
                         !.toastTimers = {e \in @ : e[1] # id} \cup {<<id, timer>>},
                         !.ids = @ + 1,
                         !.timers = @ + 1]
        /\ call' = Call("pushToast", 0, "", id, <<>>, NoAsset, "")
  /\ UNCHANGED <<ffmpeg, clock, maxHistory, activeTab, previewAsset, components, heap,
                 objectURLs>>

\* the close button of a toast shown
closeToast(id) ==
  /\ toaster.mounted
  /\ id \in Range(toaster.toasts)
  /\ toaster' = removeToast(toaster, id)
  /\ call' = Call("closeToast", 0, "", id, <<>>, NoAsset, "")
  /\ UNCHANGED <<ffmpeg, clock, maxHistory, activeTab, previewAsset, components, heap,
                 objectURLs>>

\* a pending timeout expires: the window drops it and runs its callback,
\* removeToast(toast.id)
timerFires(w) ==
  /\ w \in toaster.timeouts
  /\ toaster' = removeToast([toaster EXCEPT !.timeouts = @ \ {w}], w.id)
  /\ call' = Call("timerFires", 0, "", w.id, <<>>, NoAsset, "")
  /\ UNCHANGED <<ffmpeg, clock, maxHistory, activeTab, previewAsset, components, heap,
                 objectURLs>>

\* App's onBeforeUnmount hook: every timeout the Map holds is cleared and
\* the Map emptied; the list is left as it is
onBeforeUnmount ==
  /\ toaster.mounted
  /\ toaster' = [toaster EXCEPT
                   !.mounted = FALSE,
                   !.timeouts = {w \in @ : \A e \in toaster.toastTimers : w.timer # e[2]},
                   !.toastTimers = {}]
  /\ call' = Call("onBeforeUnmount", 0, "", 0, <<>>, NoAsset, "")
  /\ UNCHANGED <<ffmpeg, clock, maxHistory, activeTab, previewAsset, components, heap,
                 objectURLs>>

NextToasts ==
  \/ pushToast
  \/ \E id \in 1..MaxToasts : closeToast(id)
  \/ \E w \in toaster.timeouts : timerFires(w)
  \/ onBeforeUnmount

SpecToasts == InitApp /\ [][NextToasts]_vars

\* ---- claims ---------------------------------------------------------------
\* the handler that ran last called pushResult (with record call.arg)
Pushed ==
  \/ call.op = "generateVideo" /\ call.outcome = "accepted"
  \/ call.op \in {"generateImagePush", "deriveMaterialPush"}

\* the registry the last handler worked on, if its instance is still there
Registry == components[call.c].results

\* C1: every registry holds at most maxHistory records, in every reachable
\* state (after every pushResult, removeAsset and status write)
C1_BoundedHistory ==
  \A c \in DOMAIN components : Len(components[c].results) <= maxHistory

\* a pushResult has just run on a full registry and evicted a record
C1_Witness ==
  /\ Pushed
  /\ call.evicted # NoAsset
  /\ Len(Registry) = maxHistory

\* C2: eviction is first-in-first-out whatever createdAt says.  Ids are handed
\* out in creation order and a record is pushed in the step that creates it,
\* so within a registry a larger id was inserted later.  Registries list
\* newest first; an overflow evicts the earliest-inserted record present and
\* keeps the new one; maxHistory + 1 inserts into an empty registry leave the
\* maxHistory newest.
C2_FifoEviction ==
  /\ \A c \in DOMAIN components :
       \A i, j \in DOMAIN components[c].results :
         i < j => components[c].results[i] > components[c].results[j]
  /\ (Pushed /\ components[call.c].mounted) =>
       /\ Registry[1] = call.arg
       /\ call.evicted # NoAsset =>
            /\ Len(Registry) = maxHistory
            /\ \A k \in DOMAIN Registry : call.evicted < Registry[k]
       /\ (call.evicted # NoAsset /\ call.arg = maxHistory + 1) =>
            /\ call.evicted = 1
            /\ \A k \in DOMAIN Registry : Registry[k] = maxHistory + 2 - k

\* the evicted record carries a later createdAt than a record that stays
C2_Witness ==
  /\ Pushed
  /\ call.evicted # NoAsset
  /\ \E k \in DOMAIN Registry :
       heap[call.evicted].createdAt > heap[Registry[k]].createdAt

\* C3: a record's handle has been revoked exactly when the record is in no
\* registry the presentation layer shows
C3_ReleasedIffRemoved ==
  \A id \in DOMAIN heap :
    heap[id].url # NoUrl => (objectURLs[heap[id].url] > 0 <=> ~InRegistry(id))

\* C4: no URL is revoked twice; an eviction makes one revokeObjectURL call, on
\* the evicted record's URL, and none at all when that record has no URL
C4_EvictionReleasesOnce ==
  /\ \A u \in DOMAIN objectURLs : objectURLs[u] <= 1
  /\ (Pushed /\ call.evicted # NoAsset) =>
       IF heap[call.evicted].url = NoUrl
       THEN call.revoked = <<>>
       ELSE /\ call.revoked = <<heap[call.evicted].url>>
            /\ objectURLs[heap[call.evicted].url] = 1

\* a record without a URL has just been evicted
C4_Witness ==
  /\ Pushed
  /\ call.evicted # NoAsset
  /\ heap[call.evicted].url = NoUrl
  /\ \E u \in DOMAIN objectURLs : objectURLs[u] = 1

\* C5: the URL of the record App.previewAsset refers to is not revoked
C5_PreviewNotReleased ==
  (previewAsset # NoAsset /\ heap[previewAsset].url # NoUrl) =>
    objectURLs[heap[previewAsset].url] = 0

\* the removeAsset step just taken was aimed at a record of the registry in
\* one of the given states
Removing(statuses) ==
  /\ call'.op = "removeAsset"
  /\ call'.arg \in Range(components[call'.c].results)
  /\ heap[call'.arg].status \in statuses

\* C6: removeAsset on a pending record changes nothing: same registry, no
\* revokeObjectURL call, no 'deleted' toast
C6_RemovePendingRefused ==
  [][Removing({"pending"}) =>
       /\ UNCHANGED <<components, heap, objectURLs, previewAsset>>
       /\ call'.revoked = <<>>
       /\ call'.toast = ""]_vars

\* removeAsset has just been called on a record that is pending
C6_Witness ==
  /\ call.op = "removeAsset"
  /\ call.arg \in Range(Registry)
  /\ heap[call.arg].status = "pending"

\* C7: removeAsset on a ready or error record of the registry takes it out,
\* leaves the others in order, and revokes its URL if it has one
C7_RemoveReleases ==
  [][Removing({"ready", "error"}) =>
       LET id == call'.arg
           url == heap[id].url
       IN /\ components'[call'.c].results =
               SelectSeq(components[call'.c].results, LAMBDA item : item # id)
          /\ id \notin Range(components'[call'.c].results)
          /\ IF url = NoUrl
             THEN call'.revoked = <<>> /\ objectURLs' = objectURLs
             ELSE /\ call'.revoked = <<url>>
                  /\ objectURLs'[url] = objectURLs[url] + 1]_vars

\* removeAsset has just removed a record and revoked its URL
C7_Witness ==
  /\ call.op = "removeAsset"
  /\ call.outcome = "removed"
  /\ call.revoked # <<>>
  /\ call.arg \notin Range(Registry)
  /\ objectURLs[heap[call.arg].url] = 1

\* C8: a write to a placeholder that is in no registry shown creates no URL
\* for it and leaves it as it was
C8_UpdateAbsentNoOp ==
  (call.op \in {"generateVideoPopulate", "generateVideoCatch"} /\ ~InRegistry(call.arg)) =>
    /\ heap[call.arg].url = NoUrl
    /\ heap[call.arg].status = "pending"

\* C9: a status only ever changes from pending, to ready or to error
C9_StatusTerminal ==
  [][\A id \in DOMAIN heap :
       heap'[id].status # heap[id].status =>
         /\ heap[id].status = "pending"
         /\ heap'[id].status \in {"ready", "error"}]_vars

\* deleteFile has just rejected, after the record was marked ready
C9_Witness ==
  /\ call.op = "generateVideoFinally"
  /\ call.outcome = "rejected"
  /\ heap[call.arg].status = "ready"

\* C10: pending records have no URL and size 0, error records no URL, ready
\* records a URL, and only ready records a hash
C10_Lifecycle ==
  \A id \in DOMAIN heap :
    /\ heap[id].status = "pending" => (heap[id].url = NoUrl /\ heap[id].size = 0)
    /\ heap[id].status = "error" => heap[id].url = NoUrl
    /\ heap[id].status = "ready" => heap[id].url # NoUrl
    /\ heap[id].hash # 0 => heap[id].status = "ready"

\* a pending, an error and a ready record exist side by side
C10_Witness ==
  /\ \E id \in DOMAIN heap : heap[id].status = "pending"
  /\ \E id \in DOMAIN heap : heap[id].status = "error"
  /\ \E id \in DOMAIN heap : heap[id].status = "ready" /\ heap[id].hash # 0

\* every record created so far is pending, and there are n of them
AllPending(n) ==
  /\ Len(heap) = n
  /\ \A id \in DOMAIN heap : heap[id].status = "pending"

\* C11: with maxHistory = 2 and records A = 1, B = 2, C = 3: insert A gives
\* [A]; insert B gives [B, A]; insert C gives [C, B] and evicts A; update B
\* to ready; remove B succeeds and gives [C]; remove C, still pending, fails
\* and leaves [C]
C11_Scenario ==
  [][maxHistory = 2 =>
       LET R == components[1].results
           S == components'[1].results
       IN /\ (call'.op = "insert" /\ AllPending(0)) => S = <<1>>
          /\ (call'.op = "insert" /\ AllPending(1) /\ R = <<1>>) => S = <<2, 1>>
          /\ (call'.op = "insert" /\ AllPending(2) /\ R = <<2, 1>>) =>
               /\ S = <<3, 2>>
               /\ call'.evicted = 1
               /\ heap'[3].status = "pending"
          /\ (call'.op = "update" /\ call'.outcome = "ready" /\ call'.arg = 2
                /\ AllPending(3) /\ R = <<3, 2>>) =>
               /\ S = <<3, 2>>
               /\ heap'[2].status = "ready"
               /\ heap'[3].status = "pending"
          /\ (call'.op = "removeAsset" /\ call'.arg = 2 /\ R = <<3, 2>>
                /\ heap[2].status = "ready" /\ heap[3].status = "pending") =>
               /\ S = <<3>>
               /\ call'.outcome = "removed"
          /\ (call'.op = "removeAsset" /\ call'.arg = 3 /\ R = <<3>>
                /\ heap[3].status = "pending") =>
               /\ S = <<3>>
               /\ call'.outcome = "ignored"]_vars

\* the scenario has been played to its end
C11_Witness ==
  /\ maxHistory = 2
  /\ call.op = "removeAsset" /\ call.arg = 3 /\ call.outcome = "ignored"
  /\ components[1].results = <<3>>
  /\ Len(heap) = 3
  /\ heap[1].status = "pending" /\ heap[1].url = NoUrl
  /\ heap[2].status = "ready" /\ objectURLs[heap[2].url] = 1
  /\ heap[3].status = "pending"

\* C12: a pending record is the newest element of its registry, and the
\* record an overflow pops is never pending
C12_PendingNeverEvicted ==
  /\ \A c \in DOMAIN components :
       \A k \in DOMAIN components[c].results :
         heap[components[c].results[k]].status = "pending" => k = 1
  /\ (Pushed /\ call.evicted # NoAsset) => heap[call.evicted].status # "pending"

\* a placeholder has just been pushed onto a full registry: the record popped
\* was finished, the pending one stays
C12_Witness ==
  /\ call.op = "generateVideo" /\ call.outcome = "accepted"
  /\ call.evicted # NoAsset
  /\ Len(Registry) = maxHistory
  /\ heap[Registry[1]].status = "pending"

\* the records of registry c whose status is pending
PendingIn(c) ==
  {k \in DOMAIN components[c].results :
     heap[components[c].results[k]].status = "pending"}

\* C13 as stated: generation requests can be in flight side by side, so a
\* valid request made while another one is in flight is admitted
C13_ConcurrentRequests ==
  (call.op = "generateVideo" /\ call.outcome # "invalid") => call.outcome = "accepted"

\* C13 as amended: at most one generation request per generator is in
\* flight; no registry ever holds two pending records, and a request made
\* while one is in flight is dropped with that one still pending
C13_OnePendingPerRegistry ==
  /\ \A c \in DOMAIN components : Cardinality(PendingIn(c)) <= 1
  /\ (call.op = "generateVideo" /\ call.outcome = "busy") =>
       /\ components[call.c].busy
       /\ call.arg = NoAsset

\* a second request has just been dropped while the first is still pending
C13_Witness ==
  /\ call.op = "generateVideo" /\ call.outcome = "busy"
  /\ PendingIn(call.c) = {1}
  /\ Len(heap) = 1

\* C14: a record is written only by the generateVideo invocation that created
\* it, and once.  An accepted generateVideo creates one record and keeps it as
\* its placeholder until it ends; a step that changes a record is the populate
\* or the catch of the invocation whose placeholder it is, the record sits in
\* the registry of that invocation's instance, and it goes from pending to
\* ready or error; an invocation does not end with its record pending.
C14_SingleWriter ==
  [][/\ (call'.op = "generateVideo" /\ call'.outcome = "accepted") =>
          /\ Len(heap') = Len(heap) + 1
          /\ components'[call'.c].asset = Len(heap')
     /\ \A c \in DOMAIN components :
          (components[c].pc # "idle" /\ components'[c].pc # "idle") =>
             components'[c].asset = components[c].asset
     /\ \A c \in DOMAIN components :
          (components[c].type = "video" /\ components[c].pc # "idle"
             /\ components'[c].pc = "idle") =>
             heap'[components[c].asset].status # "pending"
     /\ \A id \in DOMAIN heap :
          heap'[id] # heap[id] =>
            /\ call'.op \in {"generateVideoPopulate", "generateVideoCatch"}
            /\ components[call'.c].asset = id
            /\ id \in Range(components[call'.c].results)
            /\ heap[id].status = "pending"
            /\ heap'[id].status \in {"ready", "error"}]_vars

\* two invocations are in flight, in an unmounted instance and in its
\* successor; one has just written its record, the other's is still pending
C14_Witness ==
  /\ call.op \in {"generateVideoPopulate", "generateVideoCatch"}
  /\ heap[call.arg].status # "pending"
  /\ \E c \in DOMAIN components :
       /\ c # call.c
       /\ components[c].pc # "idle"
       /\ components[c].asset # call.arg
       /\ heap[components[c].asset].status = "pending"

\* C15: when every producer step terminates, a pending record becomes ready
\* or error: error when an awaited step fails, ready when all succeed; a
\* record is pending only while the invocation that created it is running
C15_PendingSettles ==
  /\ \A id \in 1..MaxAssets :
       (id \in DOMAIN heap /\ heap[id].status = "pending")
         ~> (id \in DOMAIN heap /\ heap[id].status \in {"ready", "error"})
  /\ [][/\ call'.op = "generateVideoCatch" => heap'[call'.arg].status = "error"
        /\ call'.op = "generateVideoPopulate" => heap'[call'.arg].status = "ready"]_vars
  /\ [](\A id \in DOMAIN heap :
          heap[id].status = "pending" =>
            \E c \in DOMAIN components :
              components[c].asset = id /\ components[c].pc \in Range(VideoAwaits))

\* the last producer step has failed: the record is error, the invocation over
C15_Witness ==
  /\ call.op = "generateVideoCatch"
  /\ call.outcome = "computeFFmpegMD5"
  /\ heap[call.arg].status = "error"
  /\ components[call.c].pc = "idle"
  /\ ~components[call.c].busy

\* C16: getFFmpeg starts at most one initialisation at a time.  A call made
\* while instance is null and an initialisation is in flight starts no
\* createInstance and awaits that initialisation's promise; at most one
\* initialisation is pending; every caller that has received an FFmpeg object
\* has received the one in `instance`.
C16_SingleInitialisation ==
  /\ [](Cardinality({p \in DOMAIN ffmpeg.promises :
                       ffmpeg.promises[p] = "pending"}) <= 1)
  /\ [](\A k \in DOMAIN ffmpeg.calls :
          received(ffmpeg, k) # null => received(ffmpeg, k) = ffmpeg.instance)
  /\ [][(/\ Len(ffmpeg'.calls) = Len(ffmpeg.calls) + 1
         /\ ffmpeg.instance = null
         /\ ffmpeg.loadingPromise # null) =>
          /\ ffmpeg'.promises = ffmpeg.promises
          /\ ffmpeg.promises[ffmpeg.loadingPromise] = "pending"
          /\ ffmpeg'.calls[Len(ffmpeg'.calls)].promise = ffmpeg.loadingPromise]_vars

\* two callers awaited one initialisation and both hold the instance it made
C16_Witness ==
  \E j, k \in DOMAIN ffmpeg.calls :
    /\ j # k
    /\ ffmpeg.calls[j].promise # null
    /\ ffmpeg.calls[j].promise = ffmpeg.calls[k].promise
    /\ received(ffmpeg, j) # null
    /\ received(ffmpeg, j) = received(ffmpeg, k)
    /\ ffmpeg.instance = received(ffmpeg, j)

\* C17: a list read from a registry before a step (the record references in
\* components[c].results) shows the same field values after the step
C17_ListIsSnapshot ==
  [][\A c \in Mounted :
       \A k \in DOMAIN components[c].results :
         heap'[components[c].results[k]] = heap[components[c].results[k]]]_vars

\* C18: when the revokeObjectURL call of a removeAsset or of an overflow
\* eviction throws, the record still leaves the registry and the handler
\* lets no exception out
C18_ReleaseFailureNonFatal ==
  (call.outcome \in {"threw", "caught"}) =>
    /\ call.outcome = "caught"
    /\ (IF call.op = "removeAsset" THEN call.arg ELSE call.evicted) \notin Range(Registry)

\* the records the request that ends in this step has inserted, the one this
\* step inserts included; i counts the pushResult calls of a generateImage
Inserted ==
  LET c == call'.c
  IN CASE call'.op = "generateImagePush" -> components[c].i + 1
       [] call'.op = "generateImageCatch" -> components[c].i
       [] call'.op = "deriveMaterialPush" -> 1
       [] call'.op = "deriveMaterialCatch" -> 0
       [] OTHER -> 1

\* a generation request ends in this step
Ends ==
  \/ call'.op \in {"generateVideoCatch", "generateVideoFinally", "generateImageCatch",
                   "deriveMaterialPush", "deriveMaterialCatch"}
  \/ call'.op = "generateImagePush" /\ call'.outcome = "done"

C20_RemoveAbsentBenign ==
  [][(/\ call'.op = "removeAsset"
      /\ call'.arg \notin Range(components[call'.c].results)) =>
       /\ UNCHANGED <<components, heap, objectURLs, previewAsset>>
       /\ call'.outcome = "ignored"
       /\ call'.revoked = <<>>
       /\ call'.toast = ""]_vars

\* removeAsset has just been called a second time on a record it had removed:
\* its URL is still revoked once
C20_Witness ==
  /\ call.op = "removeAsset" /\ call.outcome = "ignored"
  /\ call.arg \notin Range(Registry)
  /\ heap[call.arg].url # NoUrl
  /\ objectURLs[heap[call.arg].url] = 1

\* the loader's phase, read off instance and loadingPromise
Phase(m) ==
  IF m.instance # null THEN "ready"
  ELSE IF m.loadingPromise = null THEN "uninitialized"
  ELSE IF m.promises[m.loadingPromise] = "pending" THEN "initializing"
  ELSE "stale"

\* the k-th caller awaited an initialisation that failed: its await throws
Failed(m, k) ==
  /\ m.calls[k].promise # null
  /\ m.promises[m.calls[k].promise] = "rejected"

\* C21: the loader goes uninitialized -> initializing -> ready, and back to
\* uninitialized when the initialisation fails.  A failure resets
\* loadingPromise and gives every caller that awaited it the error; the next
\* call starts a fresh initialisation; once instance is set it stays, and a
\* later call returns it without a createInstance.
C21_LoaderLifecycle ==
  /\ [](Phase(ffmpeg) # "stale")
  /\ [][/\ <<Phase(ffmpeg), Phase(ffmpeg')>> \in
             {<<"uninitialized", "uninitialized">>, <<"uninitialized", "initializing">>,
              <<"initializing", "initializing">>, <<"initializing", "ready">>,
              <<"initializing", "uninitialized">>, <<"ready", "ready">>}
        /\ \A p \in DOMAIN ffmpeg.promises :
             (ffmpeg.promises[p] = "pending" /\ ffmpeg'.promises[p] = "rejected") =>
               /\ ffmpeg'.loadingPromise = null
               /\ ffmpeg'.instance = null
               /\ \A k \in DOMAIN ffmpeg.calls :
                    ffmpeg.calls[k].promise = p =>
                      Failed(ffmpeg', k) /\ received(ffmpeg', k) = null
        /\ (Len(ffmpeg'.calls) = Len(ffmpeg.calls) + 1
              /\ Phase(ffmpeg) = "uninitialized") =>
               /\ Len(ffmpeg'.promises) = Len(ffmpeg.promises) + 1
               /\ ffmpeg'.loadingPromise = Len(ffmpeg'.promises)
               /\ ffmpeg'.promises[ffmpeg'.loadingPromise] = "pending"
               /\ ffmpeg'.calls[Len(ffmpeg'.calls)].promise = ffmpeg'.loadingPromise
        /\ ffmpeg.instance # null =>
               /\ ffmpeg'.instance = ffmpeg.instance
               /\ ffmpeg'.promises = ffmpeg.promises
               /\ Len(ffmpeg'.calls) = Len(ffmpeg.calls) + 1 =>
                    received(ffmpeg', Len(ffmpeg'.calls)) = ffmpeg.instance]_vars

\* an initialisation failed under a caller, a fresh one succeeded, and a call
\* made after that got the instance at once
C21_Witness ==
  /\ Len(ffmpeg.promises) = 2
  /\ ffmpeg.promises[1] = "rejected"
  /\ ffmpeg.instance = 2
  /\ \E k \in DOMAIN ffmpeg.calls : Failed(ffmpeg, k)
  /\ \E k \in DOMAIN ffmpeg.calls :
       ffmpeg.calls[k].promise = null /\ ffmpeg.calls[k].instance = 2

\* C22: generation is mutually exclusive per generator.  The busy flag is set
\* exactly while an invocation is in flight, so it is cleared on every way
\* out; a generate call made while it is set is not accepted and leaves
\* registries, records and URLs as they are; a call refused by validation
\* leaves the flag as it is; an accepted call found the flag clear and sets it.
C22_BusyExclusion ==
  /\ [](\A c \in DOMAIN components : components[c].busy <=> components[c].pc # "idle")
  /\ [][call'.op \in {"generateVideo", "generateImage", "deriveMaterial"} =>
          LET c == call'.c
          IN /\ components[c].busy =>
                  /\ call'.outcome # "accepted"
                  /\ UNCHANGED <<components, heap, objectURLs>>
             /\ call'.outcome \in {"invalid", "none", "other"} =>
                  UNCHANGED <<components, heap, objectURLs>>
             /\ call'.outcome = "accepted" =>
                  /\ ~components[c].busy
                  /\ components'[c].busy]_vars

\* a second generateImage has just returned at the guard while a batch is
\* half way through
C22_Witness ==
  /\ call.op = "generateImage" /\ call.outcome = "busy"
  /\ components[call.c].busy
  /\ components[call.c].i = 1
  /\ components[call.c].tasks = 2

TimedIds ==
  {e[1] : e \in {x \in toaster.toastTimers :
                   \E w \in toaster.timeouts : w.timer = x[2] /\ w.id = x[1]}}

\* C24: while App is mounted the ids with a pending timer in toastTimers are
\* the ids of the toasts shown, and no other timeout is pending; a timer
\* fires only for a toast still shown and removes exactly that toast;
\* closing a toast by hand removes exactly that toast and leaves no timeout
\* pending for it; a pushed toast goes to the end of the list with a fresh
\* id; after App's unmount no timeout is pending
C24_ToastTimers ==
  /\ [](IF toaster.mounted
        THEN /\ TimedIds = Range(toaster.toasts)
             /\ {e[1] : e \in toaster.toastTimers} = Range(toaster.toasts)
             /\ \A w \in toaster.timeouts : <<w.id, w.timer>> \in toaster.toastTimers
        ELSE toaster.timeouts = {})
  /\ [][/\ (call'.op \in {"timerFires", "closeToast"}) =>
             /\ call'.arg \in Range(toaster.toasts)
             /\ toaster'.toasts =
                  SelectSeq(toaster.toasts, LAMBDA toast : toast # call'.arg)
             /\ Len(toaster'.toasts) = Len(toaster.toasts) - 1
             /\ \A w \in toaster'.timeouts : w.id # call'.arg
             /\ \A w \in toaster.timeouts :
                  w.id # call'.arg => w \in toaster'.timeouts
        /\ call'.op = "pushToast" =>
             /\ call'.arg \notin Range(toaster.toasts)
             /\ toaster'.toasts = Append(toaster.toasts, call'.arg)
             /\ \E w \in toaster'.timeouts : w.id = call'.arg]_vars

\* three toasts pushed and one of them gone already; the timer of a younger
\* one has just fired, and the older one is still shown with its timer
\* pending
C24_Witness ==
  /\ call.op = "timerFires"
  /\ toaster.ids = 3
  /\ Len(toaster.toasts) = 1
  /\ call.arg > toaster.toasts[1]
  /\ TimedIds = Range(toaster.toasts)

====
